---- MODULE Spec2Model ----
(***************************************************************************)
(* The n-puzzle Board (src/puzzle.py), the three heuristics                *)
(* (src/heuristics.py) and the A* search engine (src/search.py).           *)
(*                                                                         *)
(* A Board is the record [n, tiles, zero]; tiles is the row-major tuple,   *)
(* kept as a TLA+ sequence, so Python's tiles[i] is tiles[i + 1] here.     *)
(* zero, rows, columns and move deltas keep Python's 0-based values.       *)
(***************************************************************************)
EXTENDS Integers, Sequences, FiniteSets, TLC

VARIABLES
    pc,             \* position of the driver: "walk", "loop", "done", "error"
    board,          \* the current Board (randomize's b, astar's board)
    prev_tiles,     \* randomize's prev_tiles (NoTiles before the first move)
    moves,          \* number of blank moves applied since construction
    origin,         \* facts recorded at construction / along the walk
    heur,           \* the heuristic passed to astar ("none" before the call)
    start,          \* the Board astar was called with
    heap,           \* astar's frontier: a set of entries [f, g, tie, board]
    g_values,       \* astar's best-known-cost map, keyed by tiles
    parent,         \* astar's parent map, keyed by tiles
    tie_counter,    \* next value of itertools.count()
    nodes_expanded, \* astar's expansion counter
    popped,         \* the entry bound by the last heappop (f, g, tie, board)
    result,         \* the SearchResult returned (NoResult before the return)
    call,           \* the Board operation last called, with its arguments
    expanded_tiles, \* history: the tiles of the Boards astar has expanded
    stream,         \* history: per integer seed, the draws its generator made
    runs,           \* two randomize invocations in progress
    other           \* a second astar invocation, with locals of its own

vars == <<pc, board, prev_tiles, moves, origin, heur, start, heap, g_values,
          parent, tie_counter, nodes_expanded, popped, result, call,
          expanded_tiles, stream, runs, other>>

\* Python's None, one value per type it stands in for (TLC compares only
\* values of like shape)
NoTiles == <<>>
NoBoard == [n |-> 0, tiles |-> <<>>, zero |-> 0]
NoPath == <<>>
\* what a call that raises ValueError yields in place of a Board
ValueError == [n |-> 0 - 1, tiles |-> <<>>, zero |-> 0 - 1]
NoEntry == [f |-> 0 - 1, g |-> 0 - 1, tie |-> 0 - 1, board |-> NoBoard]
NoResult == [solved |-> FALSE, solution_depth |-> 0, nodes_expanded |-> 0,
             path |-> NoPath]
\* no operation called yet
NoCall == [op |-> "none"]
\* no randomize invocation, no second astar invocation
NoRuns == <<>>
NoStream == <<>>
NoOther == [pc |-> "none"]

\* The missing-key default of g_values.get(key, 1000000000000000): a cost above
\* every recorded one (written with nine zeros to stay inside TLC's integers).
Infinity == 1000000000

(***************************************************************************)
(* Bounds of the model                                                     *)
(***************************************************************************)
\* grid sizes explored
Dims == {2, 3}
\* longest randomize walk (k of randomize(k)) before a search is started
MaxShuffle == 7
\* longest walk followed when measuring move distance from the goal
MaxDepth == 27

(***************************************************************************)
(* Board: constructors                                                     *)
(***************************************************************************)
Range(s) == {s[i] : i \in DOMAIN s}

\* flat.index(0): 0-based index of the first 0
IndexOfZero(flat) == (CHOOSE i \in 1..Len(flat) :
                        flat[i] = 0 /\ \A j \in 1..(i - 1) : flat[j] # 0) - 1

Board(n, tiles, zero) == [n |-> n, tiles |-> tiles, zero |-> zero]

goal(n) ==
    LET flat == [i \in 1..(n * n) |-> IF i = n * n THEN 0 ELSE i]
    IN Board(n, flat, IndexOfZero(flat))

\* from_flat without the check of the values
from_flat_unchecked(n, flat) ==
    IF Len(flat) # n * n THEN ValueError
    ELSE IF 0 \notin Range(flat) THEN ValueError
    ELSE Board(n, flat, IndexOfZero(flat))

\* flat.index(0) raises ValueError itself when flat holds no 0, which after
\* the two checks happens for the empty sequence of n = 0 only
from_flat(n, flat) ==
    IF Len(flat) # n * n THEN ValueError
    ELSE IF Range(flat) # 0..(n * n - 1) THEN ValueError
    ELSE IF 0 \notin Range(flat) THEN ValueError
    ELSE Board(n, flat, IndexOfZero(flat))

RECURSIVE Flatten(_)
\* tuple(x for row in rows for x in row)
Flatten(rows) ==
    IF rows = <<>> THEN <<>> ELSE Head(rows) \o Flatten(Tail(rows))

from_rows(rows) == from_flat(Len(rows), Flatten(rows))

(***************************************************************************)
(* Board: methods                                                          *)
(***************************************************************************)
is_goal(b) == b.tiles = goal(b.n).tiles

\* arr = [x for x in self.tiles if x != 0]
NonZero(tiles) == SelectSeq(tiles, LAMBDA x : x # 0)

\* inv = number of pairs i < j of arr with arr[j] < arr[i]
Inversions(arr) ==
    Cardinality({p \in (1..Len(arr)) \X (1..Len(arr)) :
                    p[1] < p[2] /\ arr[p[2]] < arr[p[1]]})

\* is_solvable with the even-n parity test turned round
is_solvable_flipped(b) ==
    LET n == b.n
        inv == Inversions(NonZero(b.tiles))
    IN IF n % 2 = 1 THEN inv % 2 = 0
       ELSE (inv + (n - (b.zero \div n))) % 2 = 0

\* is_solvable without the blank's row in the even-n test
is_solvable_norow(b) ==
    LET n == b.n
        inv == Inversions(NonZero(b.tiles))
    IN IF n % 2 = 1 THEN inv % 2 = 0
       ELSE inv % 2 = 0

is_solvable(b) ==
    LET n == b.n
        inv == Inversions(NonZero(b.tiles))
    IN IF n % 2 = 1 THEN inv % 2 = 0
       ELSE LET row_from_bottom == n - (b.zero \div n)
            IN (inv + row_from_bottom) % 2 = 1

\* deltas in the order Left, Right, Up, Down
Deltas_lrud(b) ==
    LET n == b.n
        r == b.zero \div n
        c == b.zero % n
    IN (IF c > 0 THEN <<0 - 1>> ELSE <<>>)
       \o (IF c < n - 1 THEN <<1>> ELSE <<>>)
       \o (IF r > 0 THEN <<0 - n>> ELSE <<>>)
       \o (IF r < n - 1 THEN <<n>> ELSE <<>>)

\* deltas with Left and Right tested against the ends of the tuple, not of
\* the row
Deltas_wrap(b) ==
    LET n == b.n
        r == b.zero \div n
    IN (IF r > 0 THEN <<0 - n>> ELSE <<>>)
       \o (IF r < n - 1 THEN <<n>> ELSE <<>>)
       \o (IF b.zero > 0 THEN <<0 - 1>> ELSE <<>>)
       \o (IF b.zero < n * n - 1 THEN <<1>> ELSE <<>>)

\* deltas, in the order Up, Down, Left, Right
Deltas(b) ==
    LET n == b.n
        r == b.zero \div n
        c == b.zero % n
    IN (IF r > 0 THEN <<0 - n>> ELSE <<>>)
       \o (IF r < n - 1 THEN <<n>> ELSE <<>>)
       \o (IF c > 0 THEN <<0 - 1>> ELSE <<>>)
       \o (IF c < n - 1 THEN <<1>> ELSE <<>>)

\* the swap with the old index of the blank kept as zero
Slide_stale_zero(b, d) ==
    LET z == b.zero
        nz == z + d
        t == b.tiles
    IN Board(b.n,
             [i \in 1..Len(t) |-> IF i = z + 1 THEN t[nz + 1]
                                  ELSE IF i = nz + 1 THEN t[z + 1]
                                  ELSE t[i]],
             z)

\* the swap with the delta itself stored as zero
Slide_zero_delta(b, d) ==
    LET z == b.zero
        nz == z + d
        t == b.tiles
    IN Board(b.n,
             [i \in 1..Len(t) |-> IF i = z + 1 THEN t[nz + 1]
                                  ELSE IF i = nz + 1 THEN t[z + 1]
                                  ELSE t[i]],
             d)

\* lst[z], lst[nz] = lst[nz], lst[z]; Board(n, tuple(lst), nz)
Slide(b, d) ==
    LET z == b.zero
        nz == z + d
        t == b.tiles
    IN Board(b.n,
             [i \in 1..Len(t) |-> IF i = z + 1 THEN t[nz + 1]
                                  ELSE IF i = nz + 1 THEN t[z + 1]
                                  ELSE t[i]],
             nz)

\* the children, as the sequence the generator yields
neighbors(b) ==
    LET deltas == Deltas(b)
    IN [i \in 1..Len(deltas) |-> Slide(b, deltas[i])]

\* manual_move without the test of the column before a move to the left
manual_move_wrap(b, direction) ==
    LET n == b.n
        r == b.zero \div n
        c == b.zero % n
    IN CASE direction = "U" -> IF r = 0 THEN ValueError ELSE Slide(b, 0 - n)
         [] direction = "D" -> IF r = n - 1 THEN ValueError ELSE Slide(b, n)
         [] direction = "L" -> IF b.zero = 0 THEN ValueError ELSE Slide(b, 0 - 1)
         [] direction = "R" -> IF c = n - 1 THEN ValueError ELSE Slide(b, 1)
         [] OTHER -> ValueError

\* manual_move(b, direction) for an upper-case direction: the moved Board, or
\* ValueError when the move would leave the grid or the direction is unknown
manual_move(b, direction) ==
    LET n == b.n
        r == b.zero \div n
        c == b.zero % n
    IN CASE direction = "U" -> IF r = 0 THEN ValueError ELSE Slide(b, 0 - n)
         [] direction = "D" -> IF r = n - 1 THEN ValueError ELSE Slide(b, n)
         [] direction = "L" -> IF c = 0 THEN ValueError ELSE Slide(b, 0 - 1)
         [] direction = "R" -> IF c = n - 1 THEN ValueError ELSE Slide(b, 1)
         [] OTHER -> ValueError

(***************************************************************************)
(* Heuristics                                                              *)
(***************************************************************************)
Abs(x) == IF x < 0 THEN 0 - x ELSE x

RECURSIVE SumTo(_, _)
\* f[1] + ... + f[k]
SumTo(f, k) == IF k = 0 THEN 0 ELSE f[k] + SumTo(f, k - 1)

\* tile value -> <<goal_row, goal_col>>, blank excluded
_goal_pos_map(n) == [v \in 1..(n * n - 1) |-> <<(v - 1) \div n, (v - 1) % n>>]

\* h1 that counts the blank as well when it is off its goal cell
h1_with_blank(b) ==
    Cardinality({i \in 0..(Len(b.tiles) - 1) :
                    (i + 1) % Len(b.tiles) # b.tiles[i + 1]})

h1_misplaced(b) ==
    Cardinality({i \in 0..(Len(b.tiles) - 1) :
                    b.tiles[i + 1] # 0 /\ i # b.tiles[i + 1] - 1})

\* h2 that adds the blank's distance from the last cell as well
h2_with_blank(b) ==
    LET n == b.n
        term == [k \in 1..Len(b.tiles) |->
                    LET i == k - 1
                        cell == (b.tiles[k] + n * n - 1) % (n * n)
                    IN Abs((i \div n) - (cell \div n)) + Abs((i % n) - (cell % n))]
    IN SumTo(term, Len(b.tiles))

h2_manhattan(b) ==
    LET n == b.n
        goalpos == _goal_pos_map(n)
        term == [k \in 1..Len(b.tiles) |->
                    LET i == k - 1
                        v == b.tiles[k]
                    IN IF v = 0 THEN 0
                       ELSE Abs((i \div n) - goalpos[v][1])
                            + Abs((i % n) - goalpos[v][2])]
    IN SumTo(term, Len(b.tiles))

\* seq: the <<idx_along, goal coordinate>> pairs of the tiles of the line whose
\* goal line is this one, in line order
LineSeq(line_vals, line_index, is_row, goalpos) ==
    LET keep == SelectSeq([k \in 1..Len(line_vals) |-> k],
                          LAMBDA k :
                              /\ line_vals[k] # 0
                              /\ IF is_row
                                 THEN goalpos[line_vals[k]][1] = line_index
                                 ELSE goalpos[line_vals[k]][2] = line_index)
    IN [m \in 1..Len(keep) |->
            <<keep[m] - 1,
              IF is_row THEN goalpos[line_vals[keep[m]]][2]
              ELSE goalpos[line_vals[keep[m]]][1]>>]

\* the pair count with the comparison turned round: pairs in goal order
_linear_conflicts_in_order(line_vals, line_index, is_row, goalpos) ==
    LET seq == LineSeq(line_vals, line_index, is_row, goalpos)
    IN Cardinality({p \in (1..Len(seq)) \X (1..Len(seq)) :
                       p[1] < p[2] /\ seq[p[1]][2] < seq[p[2]][2]})

_linear_conflicts_in_line(line_vals, line_index, is_row, goalpos) ==
    LET seq == LineSeq(line_vals, line_index, is_row, goalpos)
    IN Cardinality({p \in (1..Len(seq)) \X (1..Len(seq)) :
                       p[1] < p[2] /\ seq[p[1]][2] > seq[p[2]][2]})

h3_linear_conflict(b) ==
    LET n == b.n
        goalpos == _goal_pos_map(n)
        man == h2_manhattan(b)
        rows == [k \in 1..n |->
                    _linear_conflicts_in_line(
                        SubSeq(b.tiles, (k - 1) * n + 1, (k - 1) * n + n),
                        k - 1, TRUE, goalpos)]
        cols == [k \in 1..n |->
                    _linear_conflicts_in_line(
                        [m \in 1..n |-> b.tiles[(k - 1) + (m - 1) * n + 1]],
                        k - 1, FALSE, goalpos)]
        row_conflicts == SumTo(rows, n)
        col_conflicts == SumTo(cols, n)
    IN man + 2 * (row_conflicts + col_conflicts)

\* the callable passed to astar, by name
Heuristics == {"h1_misplaced", "h2_manhattan", "h3_linear_conflict"}

heuristic(name, b) ==
    CASE name = "h1_misplaced" -> h1_misplaced(b)
      [] name = "h2_manhattan" -> h2_manhattan(b)
      [] name = "h3_linear_conflict" -> h3_linear_conflict(b)

(***************************************************************************)
(* Construction and walks of Boards                                        *)
(***************************************************************************)
\* every flat sequence that is a permutation of 0..n*n-1
FlatInputs(n) == {[i \in 1..(n * n) |-> p[i] - 1] : p \in Permutations(1..(n * n))}

\* grid sizes passed to the constructors (0 and 1 lie below the puzzle sizes)
BuildDims == {0, 1, 2}
\* the values a flat sequence or a row is made of (4 is out of range for n=2)
FlatValues == 0..4
\* longest flat sequence, and most tiles in all rows together
MaxFlatLen == 5

\* the sequences of len values over FlatValues
FlatSeqs(len) == [1..len -> FlatValues]

\* the lists of at most two rows whose tiles together are flat
RowInputs(flat) ==
    (IF flat = <<>> THEN {<<>>} ELSE {})
    \cup {<<flat>>}
    \cup {<<SubSeq(flat, 1, i), SubSeq(flat, i + 1, Len(flat))>> :
             i \in 0..Len(flat)}

NbrSet(b) == Range(neighbors(b))

\* what is remembered of a Board's construction while it is moved around
Constructed(kind, b) == [kind |-> kind, solvable |-> is_solvable(b), moved |-> FALSE]

Idle ==
    /\ prev_tiles = NoTiles
    /\ heur = "none"
    /\ start = NoBoard
    /\ heap = {}
    /\ g_values = <<>>
    /\ parent = <<>>
    /\ tie_counter = 0
    /\ nodes_expanded = 0
    /\ popped = NoEntry
    /\ result = NoResult
    /\ call = NoCall
    /\ expanded_tiles = {}
    /\ stream = NoStream
    /\ runs = NoRuns
    /\ other = NoOther

\* a Board built by goal(n) or by from_flat(n, flat) from any valid sequence
InitWalk ==
    /\ pc = "walk"
    /\ \E n \in Dims :
          \/ board = goal(n) /\ origin = Constructed("goal", board)
          \/ \E flat \in FlatInputs(n) :
                board = from_flat(n, flat) /\ origin = Constructed("from_flat", board)
    /\ moves = 0
    /\ Idle

\* one legal blank move: the Board is replaced by one of its neighbors()
Step ==
    /\ pc = "walk"
    /\ \E c \in NbrSet(board) : board' = c
    /\ origin' = [origin EXCEPT !.moved = TRUE]
    /\ UNCHANGED call
    /\ UNCHANGED <<expanded_tiles, stream, runs, other>>
    /\ UNCHANGED <<pc, prev_tiles, moves, heur, start, heap, g_values, parent,
                   tie_counter, nodes_expanded, popped, result>>

\* one legal manual_move; an illegal one raises and leaves the Board as it was
ManualStep ==
    /\ pc = "walk"
    /\ \E direction \in {"U", "D", "L", "R"} :
          /\ manual_move(board, direction) # ValueError
          /\ board' = manual_move(board, direction)
    /\ origin' = [origin EXCEPT !.moved = TRUE]
    /\ UNCHANGED call
    /\ UNCHANGED <<expanded_tiles, stream, runs, other>>
    /\ UNCHANGED <<pc, prev_tiles, moves, heur, start, heap, g_values, parent,
                   tie_counter, nodes_expanded, popped, result>>

NextWalk == Step \/ ManualStep

SpecWalk == InitWalk /\ [][NextWalk]_vars

\* the goal with tiles 1 and 2 exchanged: the Board the tests use as unsolvable
Exchanged(n) ==
    from_flat(n, [i \in 1..(n * n) |->
                    IF i = 1 THEN 2 ELSE IF i = 2 THEN 1 ELSE goal(n).tiles[i]])

(***************************************************************************)
(* Walks that visit every valid Board                                      *)
(***************************************************************************)
\* The goal and the goal with two tiles exchanged lie in the two halves of
\* the valid Boards of a size, and legal moves lead from them to every Board
\* of their half.
InitBoards ==
    /\ pc = "walk"
    /\ \E n \in Dims :
          \/ board = goal(n) /\ origin = Constructed("goal", board)
          \/ board = Exchanged(n) /\ origin = Constructed("from_flat", board)
    /\ moves = 0
    /\ Idle

NextBoards == Step

SpecBoards == InitBoards /\ [][NextBoards]_vars

(***************************************************************************)
(* Walks from the goal that count their moves                              *)
(***************************************************************************)
InitDepth ==
    /\ pc = "walk"
    /\ \E n \in Dims : board = goal(n)
    /\ origin = Constructed("goal", board)
    /\ moves = 0
    /\ Idle

CountedStep ==
    /\ pc = "walk"
    /\ moves < MaxDepth
    /\ \E c \in NbrSet(board) : board' = c
    /\ moves' = moves + 1
    /\ origin' = [origin EXCEPT !.moved = TRUE]
    /\ UNCHANGED call
    /\ UNCHANGED <<expanded_tiles, stream, runs, other>>
    /\ UNCHANGED <<pc, prev_tiles, heur, start, heap, g_values, parent,
                   tie_counter, nodes_expanded, popped, result>>

NextDepth == CountedStep

SpecDepth == InitDepth /\ [][NextDepth]_vars

(***************************************************************************)
(* randomize: one iteration of its loop per step                           *)
(***************************************************************************)
\* nbrs without the filter
Candidates_unfiltered(b, prev) == neighbors(b)

\* nbrs with the Board itself among the candidates: a move that may stay
Candidates_or_stay(b, prev) == Append(neighbors(b), b)

\* nbrs after the filter that drops the Board the walk just came from
Candidates(b, prev) ==
    LET nbrs == neighbors(b)
    IN IF prev # NoTiles /\ Len(nbrs) > 1
       THEN SelectSeq(nbrs, LAMBDA x : x.tiles # prev)
       ELSE nbrs

\* the drivers shuffle the goal only: Board.goal(n).randomize(k)
RandomizeStep ==
    /\ pc = "walk"
    /\ origin.kind = "goal"
    /\ moves < MaxShuffle
    /\ \E c \in Range(Candidates(board, prev_tiles)) : board' = c
    /\ prev_tiles' = board.tiles
    /\ moves' = moves + 1
    /\ origin' = [origin EXCEPT !.moved = TRUE]
    /\ UNCHANGED call
    /\ UNCHANGED <<expanded_tiles, stream, runs, other>>
    /\ UNCHANGED <<pc, heur, start, heap, g_values, parent, tie_counter,
                   nodes_expanded, popped, result>>

(***************************************************************************)
(* Board operations called on arbitrary arguments                          *)
(***************************************************************************)
\* the directions handed to manual_move: the four moves in either case and
\* a letter that is none of them
Directions == {"U", "D", "L", "R", "u", "d", "l", "r", "X"}

\* direction.upper()
upper(direction) ==
    CASE direction = "u" -> "U"
      [] direction = "d" -> "D"
      [] direction = "l" -> "L"
      [] direction = "r" -> "R"
      [] OTHER -> direction

\* what rng.choice(nbrs) yields in place of a Board when nbrs is empty
IndexError == [n |-> 0 - 2, tiles |-> <<>>, zero |-> 0 - 2]

\* one iteration of randomize's loop from the pair <<b, prev_tiles>>: every
\* pair a random choice can lead to
Chosen(w) ==
    IF w[1] = IndexError THEN {w}
    ELSE IF Candidates(w[1], w[2]) = <<>> THEN {<<IndexError, NoTiles>>}
    ELSE {<<c, w[1].tiles>> : c \in Range(Candidates(w[1], w[2]))}

RECURSIVE Walks(_, _)
\* the pairs <<b, prev_tiles>> k iterations after the pairs ws
Walks(ws, k) ==
    IF k = 0 THEN ws ELSE Walks(UNION {Chosen(w) : w \in ws}, k - 1)

\* b.randomize(k, seed) over all seeds: the Boards it can return
randomize(b, k) == {w[1] : w \in Walks({<<b, NoTiles>>}, k)}

NoOrigin == [kind |-> "none", solvable |-> FALSE, moved |-> FALSE]

\* what a constructor call leaves: the Board it returned, or the error
Built(kind, b) ==
    /\ board' = b
    /\ pc' = IF b = ValueError THEN "error" ELSE "walk"
    /\ origin' = IF b = ValueError THEN origin ELSE Constructed(kind, b)
    /\ UNCHANGED <<expanded_tiles, stream, runs, other>>
    /\ UNCHANGED <<prev_tiles, moves, heur, start, heap, g_values, parent,
                   tie_counter, nodes_expanded, popped, result>>

InitBuild ==
    /\ pc = "build"
    /\ board = NoBoard
    /\ origin = NoOrigin
    /\ moves = 0
    /\ Idle

GoalCall ==
    /\ pc = "build"
    /\ \E n \in BuildDims \ {0} :
          /\ call' = [op |-> "goal", n |-> n]
          /\ Built("goal", goal(n))

FromFlatCall ==
    /\ pc = "build"
    /\ \E n \in BuildDims, len \in 0..MaxFlatLen : \E flat \in FlatSeqs(len) :
          /\ call' = [op |-> "from_flat", n |-> n, flat |-> flat]
          /\ Built("from_flat", from_flat(n, flat))

FromRowsCall ==
    /\ pc = "build"
    /\ \E len \in 0..MaxFlatLen : \E flat \in FlatSeqs(len) :
       \E rows \in RowInputs(flat) :
          /\ call' = [op |-> "from_rows", rows |-> rows]
          /\ Built("from_rows", from_rows(rows))

\* board.neighbors(): the Board is replaced by one of the children yielded
NeighborsCall ==
    /\ pc = "walk"
    /\ call' = [op |-> "neighbors", b |-> board]
    /\ \E c \in NbrSet(board) : board' = c
    /\ origin' = [origin EXCEPT !.moved = TRUE]
    /\ UNCHANGED <<expanded_tiles, stream, runs, other>>
    /\ UNCHANGED <<pc, prev_tiles, moves, heur, start, heap, g_values, parent,
                   tie_counter, nodes_expanded, popped, result>>

\* manual_move(board, direction): the Board is replaced by the moved one, or
\* the call raises and the Board stays
ManualMoveCall ==
    /\ pc = "walk"
    /\ \E direction \in Directions :
          /\ call' = [op |-> "manual_move", b |-> board, direction |-> direction]
          /\ \E moved \in {manual_move(board, upper(direction))} :
                /\ board' = IF moved = ValueError THEN board ELSE moved
                /\ pc' = IF moved = ValueError THEN "error" ELSE "walk"
                /\ origin' = IF moved = ValueError THEN origin
                             ELSE [origin EXCEPT !.moved = TRUE]
    /\ UNCHANGED <<expanded_tiles, stream, runs, other>>
    /\ UNCHANGED <<prev_tiles, moves, heur, start, heap, g_values, parent,
                   tie_counter, nodes_expanded, popped, result>>

\* board.randomize(k, seed), the whole call: the Board is replaced by the one
\* returned, or rng.choice raises on a Board without neighbours
RandomizeCall ==
    /\ pc = "walk"
    /\ \E k \in 0..MaxShuffle :
          /\ call' = [op |-> "randomize", b |-> board, k |-> k]
          /\ \E ret \in randomize(board, k) :
                /\ board' = IF ret = IndexError THEN board ELSE ret
                /\ pc' = IF ret = IndexError THEN "error" ELSE "walk"
                /\ origin' = IF ret = IndexError \/ k = 0 THEN origin
                             ELSE [origin EXCEPT !.moved = TRUE]
    /\ UNCHANGED <<expanded_tiles, stream, runs, other>>
    /\ UNCHANGED <<prev_tiles, moves, heur, start, heap, g_values, parent,
                   tie_counter, nodes_expanded, popped, result>>

NextBuild ==
    \/ GoalCall
    \/ FromFlatCall
    \/ FromRowsCall
    \/ NeighborsCall
    \/ ManualMoveCall
    \/ RandomizeCall

SpecBuild == InitBuild /\ [][NextBuild]_vars

(***************************************************************************)
(* Two randomize invocations side by side, each with a generator of its    *)
(* own.  What random.Random(seed) draws is a function of the seed and of   *)
(* the number of draws made from it; the function itself is not known, so  *)
(* stream records each draw of an integer seed when it is first made and   *)
(* every later generator of that seed reads the recorded value.  With      *)
(* seed None the generator is seeded from the operating system and every   *)
(* draw is free.                                                           *)
(***************************************************************************)
\* seed=None
NoSeed == 0 - 1
IntSeeds == {123, 124}
Seeds == IntSeeds \cup {NoSeed}
MaxSeedMoves == 3
\* a draw, reduced by rng.choice to an index of nbrs
Draws == 0..3
SeedReceivers == {goal(2), goal(3), from_flat(3, <<1, 2, 3, 4, 0, 5, 6, 7, 8>>)}

\* a generator left where the last user of the seed stopped
Random_resumed(seed) ==
    [seed |-> seed,
     pos |-> IF seed \in DOMAIN stream THEN Len(stream[seed]) ELSE 0]

\* rng = random.Random(seed)
Random(seed) == [seed |-> seed, pos |-> 0]

\* rng.choice(nbrs) on the draw x
choice(nbrs, x) == nbrs[(x % Len(nbrs)) + 1]

\* the draws the generator rng can make next
NextDraws(rng) ==
    IF rng.seed \in DOMAIN stream /\ rng.pos < Len(stream[rng.seed])
    THEN {stream[rng.seed][rng.pos + 1]}
    ELSE Draws

Drawn(rng, x) ==
    IF rng.seed \in DOMAIN stream /\ rng.pos = Len(stream[rng.seed])
    THEN [stream EXCEPT ![rng.seed] = Append(@, x)]
    ELSE stream

InitSeeds ==
    /\ pc = "seeds"
    /\ board = NoBoard
    /\ origin = NoOrigin
    /\ moves = 0
    /\ prev_tiles = NoTiles
    /\ heur = "none"
    /\ start = NoBoard
    /\ heap = {}
    /\ g_values = <<>>
    /\ parent = <<>>
    /\ tie_counter = 0
    /\ nodes_expanded = 0
    /\ popped = NoEntry
    /\ result = NoResult
    /\ call = NoCall
    /\ expanded_tiles = {}
    /\ other = NoOther
    /\ stream = [s \in IntSeeds |-> <<>>]
    /\ \E b \in SeedReceivers, k \in 0..MaxSeedMoves, s1, s2 \in Seeds :
          runs = [c \in 1..2 |->
                    [pc |-> "call", self |-> b, k |-> k,
                     seed |-> IF c = 1 THEN s1 ELSE s2,
                     rng |-> Random(NoSeed), b |-> NoBoard,
                     prev_tiles |-> NoTiles, i |-> 0, ret |-> NoBoard]]

\* rng = random.Random(seed); b = self; prev_tiles = None
RandomizeEnter(c) ==
    /\ runs[c].pc = "call"
    /\ runs' = [runs EXCEPT ![c].pc = "loop",
                            ![c].rng = Random(runs[c].seed),
                            ![c].b = runs[c].self]
    /\ UNCHANGED stream

\* one iteration of for _ in range(k)
RandomizeIterate(c) ==
    /\ runs[c].pc = "loop"
    /\ runs[c].i < runs[c].k
    /\ \E x \in NextDraws(runs[c].rng) :
          /\ stream' = Drawn(runs[c].rng, x)
          /\ runs' = [runs EXCEPT
                ![c].b = choice(Candidates(runs[c].b, runs[c].prev_tiles), x),
                ![c].prev_tiles = runs[c].b.tiles,
                ![c].rng = [@ EXCEPT !.pos = @ + 1],
                ![c].i = @ + 1]

\* return b
RandomizeReturn(c) ==
    /\ runs[c].pc = "loop"
    /\ runs[c].i = runs[c].k
    /\ runs' = [runs EXCEPT ![c].pc = "done", ![c].ret = runs[c].b]
    /\ UNCHANGED stream

NextSeeds ==
    /\ \E c \in 1..2 :
          \/ RandomizeEnter(c)
          \/ RandomizeIterate(c)
          \/ RandomizeReturn(c)
    /\ UNCHANGED <<pc, board, prev_tiles, moves, origin, heur, start, heap,
                   g_values, parent, tie_counter, nodes_expanded, popped,
                   result, call, expanded_tiles, other>>

SpecSeeds == InitSeeds /\ [][NextSeeds]_vars

(***************************************************************************)
(* astar                                                                   *)
(***************************************************************************)
Entry(f, g, tie, b) == [f |-> f, g |-> g, tie |-> tie, board |-> b]

\* the tuple order with the sequence numbers compared the wrong way round
TupleLessLifo(a, b) ==
    \/ a.f < b.f
    \/ a.f = b.f /\ a.g < b.g
    \/ a.f = b.f /\ a.g = b.g /\ a.tie > b.tie

\* Python's tuple order on (f, g, tie, board); tie is unique, so the Boards
\* are never compared
TupleLess(a, b) ==
    \/ a.f < b.f
    \/ a.f = b.f /\ a.g < b.g
    \/ a.f = b.f /\ a.g = b.g /\ a.tie < b.tie

\* the entry heappop returns: the least of the heap in that order
HeapTop(h) == CHOOSE e \in h : \A o \in h : o = e \/ TupleLess(e, o)

\* g_values.get(tiles, 1000000000000000)
GGet(gv, tiles) == IF tiles \in DOMAIN gv THEN gv[tiles] ELSE Infinity

\* parent.get(tiles)
ParentGet(par, tiles) == IF tiles \in DOMAIN par THEN par[tiles] ELSE NoBoard

Reverse(s) == [i \in 1..Len(s) |-> s[Len(s) + 1 - i]]

RECURSIVE Chain(_, _)
\* the Boards appended while following parent pointers from current
Chain(current, par) ==
    IF current = NoBoard THEN <<>>
    ELSE <<current>> \o Chain(ParentGet(par, current.tiles), par)

\* the path without path.reverse()
PathToUnreversed(b, par) == Chain(b, par)

\* path.append(...) along the parents, then path.reverse()
PathTo(b, par) == Reverse(Chain(b, par))

\* SearchResult without its runtime field (wall time is not modelled)
SearchResult(solved, solution_depth, expanded, path) ==
    [solved |-> solved, solution_depth |-> solution_depth,
     nodes_expanded |-> expanded, path |-> path]

\* a result that leaves the goal pop out of the count
Found_uncounted(g, expanded, path) == SearchResult(TRUE, g, expanded - 1, path)

Found(g, expanded, path) == SearchResult(TRUE, g, expanded, path)

NotFound(expanded) == SearchResult(FALSE, 0 - 1, expanded, NoPath)

\* the improvement test with <= for <
ImprovesOrEqual(gv, total_g, neighbour) == total_g <= GGet(gv, neighbour.tiles)

\* "if total_g < g_values.get(neighbour.tiles, 1000000000000000)"
Improves(gv, total_g, neighbour) == total_g < GGet(gv, neighbour.tiles)

\* every neighbour recorded and pushed, without the improvement test
Improved_all(gv, b, g) == neighbors(b)

\* The neighbours the for loop records and pushes, in the order it meets
\* them. The neighbours of a Board are pairwise different Boards and all get
\* the same total_g, so what the loop has recorded for one of them never
\* changes the test of a later one: each is tested against the map as it was
\* when the loop began.
Improved(gv, b, g) ==
    SelectSeq(neighbors(b), LAMBDA neighbour : Improves(gv, g + 1, neighbour))

\* g_values[neighbour.tiles] = total_g (or parent[neighbour.tiles] = board)
\* for every recorded neighbour
Recorded(map, imp, value) ==
    LET keys == {imp[i].tiles : i \in 1..Len(imp)}
    IN [t \in (DOMAIN map) \cup keys |-> IF t \in keys THEN value ELSE map[t]]

\* the entries pushed with fn = heuristic(neighbour), total_g left out
PushedGreedy(h, g, imp, tie) ==
    {Entry(heuristic(h, imp[i]), g + 1, tie + (i - 1), imp[i]) :
        i \in 1..Len(imp)}

\* the entries pushed with fn = total_g + 3 * heuristic(neighbour)
PushedWeighted(h, g, imp, tie) ==
    {Entry((g + 1) + 3 * heuristic(h, imp[i]), g + 1, tie + (i - 1), imp[i]) :
        i \in 1..Len(imp)}

\* the entries pushed: fn = total_g + heuristic(neighbour), with successive
\* values of the tie counter
Pushed(h, g, imp, tie) ==
    {Entry((g + 1) + heuristic(h, imp[i]), g + 1, tie + (i - 1), imp[i]) :
        i \in 1..Len(imp)}

\* astar(board, heuristic) up to the while loop
AstarCall ==
    /\ pc = "walk"
    /\ \E h \in Heuristics :
          /\ heur' = h
          /\ heap' = {Entry(heuristic(h, board), 0, 0, board)}
    /\ start' = board
    /\ g_values' = (board.tiles :> 0)
    /\ parent' = (board.tiles :> NoBoard)
    /\ tie_counter' = 1
    /\ nodes_expanded' = 0
    /\ prev_tiles' = NoTiles
    /\ pc' = "loop"
    /\ UNCHANGED call
    /\ UNCHANGED <<expanded_tiles, stream, runs, other>>
    /\ UNCHANGED <<board, moves, origin, popped, result>>

\* the staleness test with <= for <
StaleOrEqual(e) == GGet(g_values, e.board.tiles) <= e.g

\* "if g_values.get(board.tiles, 1000000000000000) < g"
Stale(e) == GGet(g_values, e.board.tiles) < e.g

\* a stale pop that is counted as an expansion
PopStale_counted ==
    /\ pc = "loop"
    /\ heap # {}
    /\ \E e \in {HeapTop(heap)} :
          /\ Stale(e)
          /\ heap' = heap \ {e}
          /\ popped' = e
          /\ board' = e.board
    /\ nodes_expanded' = nodes_expanded + 1
    /\ UNCHANGED call
    /\ UNCHANGED <<expanded_tiles, stream, runs, other>>
    /\ UNCHANGED <<pc, prev_tiles, moves, origin, heur, start, g_values,
                   parent, tie_counter, result>>

\* heappop, then "continue" on a stale entry
PopStale ==
    /\ pc = "loop"
    /\ heap # {}
    /\ \E e \in {HeapTop(heap)} :
          /\ Stale(e)
          /\ heap' = heap \ {e}
          /\ popped' = e
          /\ board' = e.board
    /\ UNCHANGED call
    /\ UNCHANGED <<expanded_tiles, stream, runs, other>>
    /\ UNCHANGED <<pc, prev_tiles, moves, origin, heur, start, g_values,
                   parent, tie_counter, nodes_expanded, result>>

\* heappop of a goal Board: the path is rebuilt and the result returned
PopGoal ==
    /\ pc = "loop"
    /\ heap # {}
    /\ \E e \in {HeapTop(heap)} :
          /\ ~Stale(e)
          /\ is_goal(e.board)
          /\ heap' = heap \ {e}
          /\ popped' = e
          /\ board' = e.board
          /\ nodes_expanded' = nodes_expanded + 1
          /\ result' = Found(e.g, nodes_expanded + 1, PathTo(e.board, parent))
    /\ pc' = "done"
    /\ UNCHANGED call
    /\ expanded_tiles' = expanded_tiles \cup {HeapTop(heap).board.tiles}
    /\ UNCHANGED <<stream, runs, other>>
    /\ UNCHANGED <<prev_tiles, moves, origin, heur, start, g_values, parent,
                   tie_counter>>

\* heappop of any other Board: it is expanded
PopExpand ==
    /\ pc = "loop"
    /\ heap # {}
    /\ \E e \in {HeapTop(heap)} :
          /\ ~Stale(e)
          /\ ~is_goal(e.board)
          /\ popped' = e
          /\ board' = e.board
          /\ nodes_expanded' = nodes_expanded + 1
          /\ \E imp \in {Improved(g_values, e.board, e.g)} :
                /\ g_values' = Recorded(g_values, imp, e.g + 1)
                /\ parent' = Recorded(parent, imp, e.board)
                /\ heap' = (heap \ {e}) \cup Pushed(heur, e.g, imp, tie_counter)
                /\ tie_counter' = tie_counter + Len(imp)
    /\ UNCHANGED call
    /\ expanded_tiles' = expanded_tiles \cup {HeapTop(heap).board.tiles}
    /\ UNCHANGED <<stream, runs, other>>
    /\ UNCHANGED <<pc, prev_tiles, moves, origin, heur, start, result>>

\* the while loop ends on an empty heap
Exhausted ==
    /\ pc = "loop"
    /\ heap = {}
    /\ result' = NotFound(nodes_expanded)
    /\ pc' = "done"
    /\ UNCHANGED call
    /\ UNCHANGED <<expanded_tiles, stream, runs, other>>
    /\ UNCHANGED <<board, prev_tiles, moves, origin, heur, start, heap,
                   g_values, parent, tie_counter, nodes_expanded, popped>>

\* The Boards a search is started from: goal(n) shuffled by randomize, every
\* valid 2x2 Board, and a 3x3 Board 16 moves from the goal on which the
\* frontier comes to hold a stale entry.
SearchFlats ==
    {<<2, flat>> : flat \in FlatInputs(2)}
    \cup {<<3, <<4, 8, 3, 2, 0, 6, 1, 5, 7>> >>}

Init ==
    /\ pc = "walk"
    /\ \/ \E n \in Dims : board = goal(n) /\ origin = Constructed("goal", board)
       \/ \E in \in SearchFlats :
             /\ board = from_flat(in[1], in[2])
             /\ origin = Constructed("from_flat", board)
    /\ moves = 0
    /\ Idle

Next ==
    \/ RandomizeStep
    \/ AstarCall
    \/ PopStale
    \/ PopGoal
    \/ PopExpand
    \/ Exhausted

Spec == Init /\ [][Next]_vars

\* the call runs to completion: the single thread keeps taking steps
SpecLive == Spec /\ WF_vars(Next)

(***************************************************************************)
(* Two astar invocations side by side.  The first runs on the variables    *)
(* above; the locals of the second (heap, g_values, parent, tie_counter,   *)
(* nodes_expanded and the popped entry) are the fields of the record       *)
(* other, and its steps are the same statements applied to that record.    *)
(***************************************************************************)
\* the locals of an invocation that has not reached the while loop
Called(b, h) ==
    [pc |-> "call", heur |-> h, start |-> b, heap |-> {}, g_values |-> <<>>,
     parent |-> <<>>, tie_counter |-> 0, nodes_expanded |-> 0,
     popped |-> NoEntry, result |-> NoResult]

\* astar(b, h) up to the while loop
AstarEnter(b, h) ==
    [pc |-> "loop", heur |-> h, start |-> b,
     heap |-> {Entry(heuristic(h, b), 0, 0, b)},
     g_values |-> (b.tiles :> 0), parent |-> (b.tiles :> NoBoard),
     tie_counter |-> 1, nodes_expanded |-> 0,
     popped |-> NoEntry, result |-> NoResult]

\* one turn of the while loop, or the return after it, on the locals inv
AstarStep(inv) ==
    IF inv.heap = {}
    THEN [inv EXCEPT !.pc = "done", !.result = NotFound(inv.nodes_expanded)]
    ELSE LET e == HeapTop(inv.heap)
         IN IF GGet(inv.g_values, e.board.tiles) < e.g
            THEN [inv EXCEPT !.heap = @ \ {e}, !.popped = e]
            ELSE IF is_goal(e.board)
            THEN [inv EXCEPT !.heap = @ \ {e}, !.popped = e,
                             !.nodes_expanded = @ + 1,
                             !.pc = "done",
                             !.result = Found(e.g, inv.nodes_expanded + 1,
                                              PathTo(e.board, inv.parent))]
            ELSE LET imp == Improved(inv.g_values, e.board, e.g)
                 IN [inv EXCEPT
                        !.heap = (@ \ {e})
                                 \cup Pushed(inv.heur, e.g, imp, inv.tie_counter),
                        !.popped = e,
                        !.nodes_expanded = @ + 1,
                        !.g_values = Recorded(@, imp, e.g + 1),
                        !.parent = Recorded(@, imp, e.board),
                        !.tie_counter = @ + Len(imp)]

\* the locals of the first invocation, as a record of the same shape
Locals ==
    [pc |-> pc, heur |-> heur, start |-> start, heap |-> heap,
     g_values |-> g_values, parent |-> parent, tie_counter |-> tie_counter,
     nodes_expanded |-> nodes_expanded, popped |-> popped, result |-> result]

\* the second invocation reading the parent map of the first
OtherLocals_shared == [other EXCEPT !.parent = parent]

\* the locals the second invocation works on: its own
OtherLocals == other

OtherCall ==
    /\ other.pc = "call"
    /\ other' = AstarEnter(other.start, other.heur)
    /\ UNCHANGED <<pc, board, prev_tiles, moves, origin, heur, start, heap,
                   g_values, parent, tie_counter, nodes_expanded, popped,
                   result, call, expanded_tiles, stream, runs>>

OtherStep ==
    /\ other.pc = "loop"
    /\ other' = AstarStep(OtherLocals)
    /\ UNCHANGED <<pc, board, prev_tiles, moves, origin, heur, start, heap,
                   g_values, parent, tie_counter, nodes_expanded, popped,
                   result, call, expanded_tiles, stream, runs>>

\* the Boards the two invocations are started on: the goal, Boards near it
\* and an unsolvable Board
PairFlats ==
    {<<2, <<1, 2, 3, 0>> >>, <<2, <<0, 1, 3, 2>> >>, <<2, <<2, 1, 3, 0>> >>,
     <<3, <<1, 2, 3, 4, 0, 6, 7, 5, 8>> >>}

\* the calls made: each of those Boards with each heuristic, and for the
\* first invocation also the call whose frontier comes to hold a stale entry
PairCalls == PairFlats \X Heuristics

FirstCalls ==
    PairCalls \cup {<<<<3, <<4, 8, 3, 2, 0, 6, 1, 5, 7>> >>, "h3_linear_conflict">>}

\* the first invocation has reached its while loop; the second has been
\* called
InitPair ==
    /\ \E c \in FirstCalls :
          \E inv \in {AstarEnter(from_flat(c[1][1], c[1][2]), c[2])} :
             /\ board = inv.start
             /\ origin = Constructed("from_flat", inv.start)
             /\ pc = inv.pc
             /\ heur = inv.heur
             /\ start = inv.start
             /\ heap = inv.heap
             /\ g_values = inv.g_values
             /\ parent = inv.parent
             /\ tie_counter = inv.tie_counter
             /\ nodes_expanded = inv.nodes_expanded
             /\ popped = inv.popped
             /\ result = inv.result
    /\ moves = 0
    /\ prev_tiles = NoTiles
    /\ call = NoCall
    /\ expanded_tiles = {}
    /\ stream = NoStream
    /\ runs = NoRuns
    /\ \E c \in PairCalls : other = Called(from_flat(c[1][1], c[1][2]), c[2])

NextPair ==
    \/ PopStale
    \/ PopGoal
    \/ PopExpand
    \/ Exhausted
    \/ OtherCall
    \/ OtherStep

SpecPair == InitPair /\ [][NextPair]_vars

RECURSIVE Run(_)
\* the locals at the return of an invocation that runs with no other
Run(inv) == IF inv.pc = "done" THEN inv ELSE Run(AstarStep(inv))

\* astar(b, h) run alone
Alone(b, h) == Run(AstarEnter(b, h)).result

(***************************************************************************)
(* Minimum number of legal moves, by breadth-first search                  *)
(***************************************************************************)
\* the Boards one move beyond the level cur, prev being the level before it
NextLevel(prev, cur) == (UNION {NbrSet(b) : b \in cur}) \ (prev \cup cur)

RECURSIVE Meet(_, _, _, _, _)
\* a is the set of Boards exactly (d + 1) \div 2 moves from the start and b the
\* set exactly d \div 2 moves from the goal: the distance is the first d at
\* which the two levels share a Board, and there is none once a level is empty
Meet(aPrev, a, bPrev, b, d) ==
    IF a = {} \/ b = {} THEN 0 - 1
    ELSE IF a \cap b # {} THEN d
    ELSE IF d % 2 = 0 THEN Meet(a, NextLevel(aPrev, a), bPrev, b, d + 1)
    ELSE Meet(aPrev, a, b, NextLevel(bPrev, b), d + 1)

\* least number of moves from s to goal(s.n); -1 when the goal is unreachable
MinMoves(s) == Meet({}, {s}, {}, {goal(s.n)}, 0)

\* least number of moves from s to b; -1 when b is unreachable from s
Distance(s, b) == Meet({}, {s}, {}, {b}, 0)

RECURSIVE Closure(_, _)
\* the Boards reachable from the level cur, seen being those found before it
Closure(seen, cur) ==
    IF cur = {} THEN seen
    ELSE Closure(seen \cup cur, NextLevel(seen, cur))

\* the Boards reachable from s by legal moves
Reachable(s) == Closure({}, {s})

RECURSIVE Factorial(_)
Factorial(k) == IF k <= 1 THEN 1 ELSE k * Factorial(k - 1)

(***************************************************************************)
(* Claims                                                                  *)
(***************************************************************************)
Returned == pc = "done"

\* C1: when the goal is reachable from the start, astar with h1_misplaced or
\* h2_manhattan returns solved = true and a solution_depth equal to the
\* breadth-first minimum number of moves from the start to the goal.
C1_OptimalDepthH1H2 ==
    (Returned /\ heur \in {"h1_misplaced", "h2_manhattan"} /\ MinMoves(start) >= 0)
        => (result.solved /\ result.solution_depth = MinMoves(start))

C1_Witness ==
    /\ Returned
    /\ heur = "h1_misplaced"
    /\ start.n = 3
    /\ result.solved
    /\ result.solution_depth >= 8

\* C2: when the goal is reachable from the start, astar with
\* h3_linear_conflict returns solved = true and a solution_depth equal to the
\* breadth-first minimum number of moves from the start to the goal.
C2_OptimalDepthH3 ==
    (Returned /\ heur = "h3_linear_conflict" /\ MinMoves(start) >= 0)
        => (result.solved /\ result.solution_depth = MinMoves(start))

C2_Witness ==
    /\ Returned
    /\ heur = "h3_linear_conflict"
    /\ start.n = 3
    /\ result.solved
    /\ result.solution_depth >= 8

\* C3: whenever astar returns solved = true, the path starts at the start
\* Board, ends at goal(n), joins consecutive Boards by one legal blank move
\* and has solution_depth + 1 Boards.
C3_PathIsSolution ==
    (Returned /\ result.solved) =>
        LET p == result.path
        IN /\ Len(p) = result.solution_depth + 1
           /\ p[1] = start
           /\ p[Len(p)] = goal(start.n)
           /\ \A i \in 1..(Len(p) - 1) : p[i + 1] \in NbrSet(p[i])

C3_Witness ==
    /\ Returned
    /\ result.solved
    /\ heur = "h3_linear_conflict"
    /\ Len(result.path) >= 9

\* C4: from a start that cannot reach the goal astar empties the frontier and
\* returns solved = false, solution_depth = -1 and no path; from a start that
\* can reach the goal it returns solved = true.
C4_UnsolvableIsNormalResult ==
    Returned =>
        IF MinMoves(start) >= 0 THEN result.solved
        ELSE /\ heap = {}
             /\ ~result.solved
             /\ result.solution_depth = 0 - 1
             /\ result.path = NoPath

C4_Witness ==
    /\ Returned
    /\ MinMoves(start) < 0
    /\ ~result.solved
    /\ result.nodes_expanded > 1

\* a Board is pushed only when its recorded cost strictly decreases, to the
\* cost the pushed entry carries
PushOnlyOnDecrease ==
    \A e \in heap' \ heap :
        /\ e.g < GGet(g_values, e.board.tiles)
        /\ GGet(g_values', e.board.tiles) = e.g

\* C5: the astar loop terminates: every push strictly lowers the recorded
\* cost of the pushed Board, and a call that has entered the loop eventually
\* returns a SearchResult.
C5_Terminates ==
    /\ [][pc = "loop" => PushOnlyOnDecrease]_vars
    /\ (pc = "loop") ~> Returned

C5_Witness ==
    /\ Returned
    /\ result.solved
    /\ heap # {}
    /\ result.nodes_expanded > 20

\* C6: is_solvable() tells whether the goal can be reached: a Board from
\* which legal moves lead to the goal was is_solvable() when constructed, and
\* a Board from which they lead to the goal with two tiles exchanged was not.
C6_SolvableIffGoalReachable ==
    /\ is_goal(board) => origin.solvable
    /\ board = Exchanged(board.n) => ~origin.solvable

C6_Witness ==
    /\ origin.moved
    /\ origin.kind = "from_flat"
    /\ board.n = 3
    /\ is_goal(board)

\* C7: is_solvable() of a Board reached by legal moves equals is_solvable()
\* of the Board the moves started from, for odd and even n.
C7_SolvableInvariantUnderMoves == is_solvable(board) = origin.solvable

C7_Witness ==
    /\ origin.moved
    /\ board.n = 2
    /\ ~origin.solvable
    /\ board.zero \div board.n = 0

\* C8: h3_linear_conflict is admissible: a Board reached from the goal in
\* `moves` legal moves (so at most `moves` moves from it) has
\* h3_linear_conflict <= moves.
C8_H3Admissible == h3_linear_conflict(board) <= moves

\* C9: h3_linear_conflict is consistent: h3(u) <= 1 + h3(v) for every valid
\* Board u and every v in u.neighbors().
C9_H3Consistent ==
    \A v \in NbrSet(board) : h3_linear_conflict(board) <= 1 + h3_linear_conflict(v)

\* C10 as stated: among frontier entries of equal f the earlier pushed is
\* popped first, so no entry with the popped entry's f and a smaller sequence
\* number is left in the frontier.
C10_FifoAmongEqualF ==
    popped # NoEntry =>
        \A e \in heap : e.f = popped.f => e.tie > popped.tie

\* C10 as amended: among frontier entries of equal f the one with the smaller
\* g is popped first, and among entries of equal f and equal g the earlier
\* pushed one.
C10_TieByGThenInsertion ==
    popped # NoEntry =>
        \A e \in heap :
            e.f = popped.f =>
                \/ e.g > popped.g
                \/ e.g = popped.g /\ e.tie > popped.tie

C10_Witness ==
    /\ popped # NoEntry
    /\ \E e \in heap : e.f = popped.f /\ e.g = popped.g /\ e.tie > popped.tie
    /\ \E e \in heap : e.f = popped.f /\ e.g > popped.g /\ e.tie < popped.tie

\* some row's length differs from the number of rows
Ragged(rows) == \E i \in 1..Len(rows) : Len(rows[i]) # Len(rows)

\* C11: from_rows fails with the invalid-board error on every ragged input
\* and constructs no Board from it.
C11_RaggedRowsRejected ==
    (call.op = "from_rows" /\ Ragged(call.rows))
        => (pc = "error" /\ board = ValueError)

\* seq has n*n values and holds each of 0..n*n-1 exactly once
IsPermutation(n, seq) ==
    /\ Len(seq) = n * n
    /\ \A v \in 0..(n * n - 1) :
          Cardinality({i \in 1..Len(seq) : seq[i] = v}) = 1

\* the last call made is from_flat: it has just returned or raised
FromFlatDone == call.op = "from_flat"

\* C12 as stated: from_flat(n, seq) returns a Board exactly when seq has n*n
\* values and holds each of 0..n*n-1 once, and fails with the invalid-board
\* error otherwise.
C12_FromFlatIffPermutation ==
    FromFlatDone =>
        IF IsPermutation(call.n, call.flat)
        THEN pc = "walk" /\ board.n = call.n /\ board.tiles = call.flat
        ELSE pc = "error" /\ board = ValueError

\* C12 as amended: the equivalence holds for n >= 1; for n = 0 from_flat
\* fails on every sequence, the empty one included.
C12_FromFlatIffPermutationOfNonEmpty ==
    FromFlatDone =>
        IF call.n >= 1 /\ IsPermutation(call.n, call.flat)
        THEN pc = "walk" /\ board.n = call.n /\ board.tiles = call.flat
        ELSE pc = "error" /\ board = ValueError

C12_Witness ==
    /\ FromFlatDone
    /\ call.n = 2
    /\ Len(call.flat) = 4
    /\ Range(call.flat) = {0, 1, 3}
    /\ pc = "error"

\* the blank of b would leave the grid when moved in direction d
OffGrid(b, d) ==
    LET r == b.zero \div b.n
        c == b.zero % b.n
    IN \/ d = "U" /\ r = 0
       \/ d = "D" /\ r = b.n - 1
       \/ d = "L" /\ c = 0
       \/ d = "R" /\ c = b.n - 1

\* the index of the cell next to the blank of b in direction d
Adjacent(b, d) ==
    LET r == b.zero \div b.n
        c == b.zero % b.n
    IN CASE d = "U" -> (r - 1) * b.n + c
         [] d = "D" -> (r + 1) * b.n + c
         [] d = "L" -> r * b.n + (c - 1)
         [] d = "R" -> r * b.n + (c + 1)

\* C13: manual_move(b, d) with d one of U, D, L, R raises exactly when the
\* blank would leave the grid, and b stays as it was; otherwise it returns b
\* with the blank and the adjacent tile in direction d exchanged and zero set
\* to the blank's new index.
C13_ManualMoveLegalOrRaises ==
    (call.op = "manual_move" /\ call.direction \in {"U", "D", "L", "R"}) =>
        LET b == call.b
            d == call.direction
        IN IF OffGrid(b, d) THEN pc = "error" /\ board = b
           ELSE /\ pc = "walk"
                /\ board.n = b.n
                /\ board.zero = Adjacent(b, d)
                /\ board.tiles[Adjacent(b, d) + 1] = 0
                /\ board.tiles[b.zero + 1] = b.tiles[Adjacent(b, d) + 1]
                /\ \A i \in 1..Len(b.tiles) :
                      i \notin {b.zero + 1, Adjacent(b, d) + 1}
                          => board.tiles[i] = b.tiles[i]
                /\ Len(board.tiles) = Len(b.tiles)

C13_Witness ==
    /\ call.op = "manual_move"
    /\ call.direction = "L"
    /\ call.b.n = 2
    /\ call.b.zero = 2
    /\ pc = "error"
    /\ board = call.b

\* the moves that keep the blank of b on the grid, in the order U, D, L, R
InBounds(b) == SelectSeq(<<"U", "D", "L", "R">>, LAMBDA d : ~OffGrid(b, d))

\* number of grid edges the blank of b lies on: 2 in a corner, 1 on a
\* non-corner edge cell, 0 in the interior (for n >= 2)
EdgesTouched(b) ==
    LET r == b.zero \div b.n
        c == b.zero % b.n
    IN (IF r = 0 \/ r = b.n - 1 THEN 1 ELSE 0)
       + (IF c = 0 \/ c = b.n - 1 THEN 1 ELSE 0)

\* C14: neighbors() yields the in-bounds children in the order Up, Down,
\* Left, Right: 2 children with the blank in a corner, 3 on a non-corner edge
\* cell, 4 in the interior.
C14_NeighborsOrderAndDegree ==
    LET nbrs == neighbors(board)
        dirs == InBounds(board)
    IN /\ Len(nbrs) = Len(dirs)
       /\ \A i \in 1..Len(nbrs) :
             /\ nbrs[i].zero = Adjacent(board, dirs[i])
             /\ nbrs[i].tiles[nbrs[i].zero + 1] = 0
       /\ Len(nbrs) = 4 - EdgesTouched(board)

C14_Witness ==
    /\ origin.moved
    /\ board.n = 3
    /\ board.zero = 3
    /\ Len(neighbors(board)) = 3

\* the 0-based positions at which the tiles of b and c differ
Diffs(b, c) == {i \in 0..(Len(b.tiles) - 1) : b.tiles[i + 1] # c.tiles[i + 1]}

\* C15: every child of b differs from b in exactly two positions, which hold
\* each other's values, one of them the blank; the blank's new cell is one
\* row or one column away from its old cell, without wrapping round a row
\* end.
C15_ChildIsOneSwap ==
    \A c \in NbrSet(board) :
        /\ c.n = board.n
        /\ Len(c.tiles) = Len(board.tiles)
        /\ Diffs(board, c) = {board.zero, c.zero}
        /\ board.zero # c.zero
        /\ c.tiles[c.zero + 1] = 0
        /\ c.tiles[board.zero + 1] = board.tiles[c.zero + 1]
        /\ Abs((board.zero \div board.n) - (c.zero \div c.n))
              + Abs((board.zero % board.n) - (c.zero % c.n)) = 1

C15_Witness ==
    /\ origin.moved
    /\ board.n = 3
    /\ board.zero = 5
    /\ \E c \in NbrSet(board) : c.zero = 2

\* tiles is a permutation of 0..n*n-1 and zero is the index of the 0
ValidBoard(b) ==
    /\ IsPermutation(b.n, b.tiles)
    /\ b.zero \in 0..(b.n * b.n - 1)
    /\ b.tiles[b.zero + 1] = 0

C17_NoImmediateUndo ==
    [][(pc = "walk" /\ board' # board) =>
          /\ prev_tiles' = board.tiles
          /\ prev_tiles # NoTiles => board'.tiles # prev_tiles]_vars

C17_Witness ==
    /\ pc = "walk"
    /\ moves >= 3
    /\ board.n = 2
    /\ prev_tiles # NoTiles
    /\ prev_tiles \in {c.tiles : c \in NbrSet(board)}

\* C18: randomize always yields a solvable Board, for every valid receiver,
\* every k >= 0 and every sequence of random choices.
C18_RandomizeYieldsSolvable ==
    (call.op = "randomize" /\ pc = "walk") => is_solvable(board)

\* C19: h1_misplaced(b) <= h2_manhattan(b) <= h3_linear_conflict(b) for every
\* valid Board b.
C19_DominationChain ==
    /\ h1_misplaced(board) <= h2_manhattan(board)
    /\ h2_manhattan(board) <= h3_linear_conflict(board)

C19_Witness ==
    /\ origin.moved
    /\ board.n = 3
    /\ 0 < h1_misplaced(board)
    /\ h1_misplaced(board) < h2_manhattan(board)
    /\ h2_manhattan(board) < h3_linear_conflict(board)

\* C20: h2_manhattan changes by at most 1 across a legal move: for every
\* valid Board b and every b' in b.neighbors(),
\* |h2_manhattan(b) - h2_manhattan(b')| <= 1.
C20_ManhattanLipschitz ==
    \A c \in NbrSet(board) : Abs(h2_manhattan(board) - h2_manhattan(c)) <= 1

C20_Witness ==
    /\ origin.moved
    /\ board.n = 3
    /\ \E c \in NbrSet(board) : h2_manhattan(c) = h2_manhattan(board) + 1
    /\ \E c \in NbrSet(board) : h2_manhattan(c) = h2_manhattan(board) - 1

\* C21: each of h1_misplaced, h2_manhattan and h3_linear_conflict returns an
\* integer >= 0 on every valid Board, and 0 exactly on the goal.
C21_ZeroExactlyOnGoal ==
    \A name \in Heuristics :
        /\ heuristic(name, board) \in Nat
        /\ heuristic(name, board) = 0 <=> is_goal(board)

C21_Witness ==
    /\ origin.moved
    /\ board.n = 3
    /\ is_goal(board)
    /\ h3_linear_conflict(board) = 0

\* C22: from_flat(b.n, b.tiles) equals b, in n, tiles and zero, for every
\* Board b produced by the constructors or by moves: Boards of equal n and
\* tiles are equal values.
C22_RoundTrip == from_flat(board.n, board.tiles) = board

C22_Witness ==
    /\ origin.moved
    /\ board.n = 3
    /\ board.zero = 0
    /\ from_flat(3, board.tiles).zero = 0

BothReturned == runs # NoRuns /\ runs[1].pc = "done" /\ runs[2].pc = "done"

SameArguments ==
    /\ runs[1].self = runs[2].self
    /\ runs[1].k = runs[2].k
    /\ runs[1].seed = runs[2].seed

\* C23 as stated: two randomize calls with the same receiver, the same k and
\* the same seed return Boards with identical tiles.
C23_SameSeedSameTiles ==
    (BothReturned /\ SameArguments) => runs[1].ret.tiles = runs[2].ret.tiles

\* C23: two randomize calls with the same receiver, the same k and the same
\* integer seed (a seed that is not None) return Boards with identical tiles.
C23_SameIntegerSeedSameTiles ==
    (BothReturned /\ SameArguments /\ runs[1].seed # NoSeed)
        => runs[1].ret.tiles = runs[2].ret.tiles

C23_Witness ==
    /\ BothReturned
    /\ SameArguments
    /\ runs[1].seed = 123
    /\ runs[1].k = MaxSeedMoves
    /\ runs[1].self = goal(3)
    /\ runs[1].ret.tiles = runs[2].ret.tiles
    /\ runs[1].ret.tiles # goal(3).tiles

\* C26: a pop of a frontier entry whose g is strictly greater than the cost
\* recorded for its Board removes that entry and nothing else: nodes_expanded,
\* the g-map, the parent map and the tie counter are unchanged, nothing is
\* pushed and the loop goes on; a pop of an entry whose g equals the recorded
\* cost is counted as an expansion.
C26_StalePopOnlyRemoves ==
    [][(pc = "loop" /\ heap # {}) =>
          LET e == HeapTop(heap)
          IN /\ popped' = e
             /\ IF g_values[e.board.tiles] < e.g
                THEN /\ heap' = heap \ {e}
                     /\ pc' = "loop"
                     /\ UNCHANGED <<nodes_expanded, g_values, parent,
                                    tie_counter, result, expanded_tiles>>
                ELSE /\ g_values[e.board.tiles] = e.g
                     /\ nodes_expanded' = nodes_expanded + 1
                     /\ e.board.tiles \in expanded_tiles']_vars

\* just after a stale pop
C26_Witness ==
    /\ pc = "loop"
    /\ popped # NoEntry
    /\ g_values[popped.board.tiles] < popped.g
    /\ popped.board.tiles \in expanded_tiles
    /\ nodes_expanded = Cardinality(expanded_tiles)

Searching == pc \in {"loop", "done"} /\ heur # "none"

\* the start keeps cost 0 and parent None
StartIsRoot ==
    /\ start.tiles \in DOMAIN g_values
    /\ g_values[start.tiles] = 0
    /\ parent[start.tiles] = NoBoard

\* every other recorded Board has a parent one legal move away whose recorded
\* cost is strictly smaller
ParentsAreCloser ==
    /\ DOMAIN parent = DOMAIN g_values
    /\ \A t \in (DOMAIN g_values) \ {start.tiles} :
          /\ parent[t] # NoBoard
          /\ t \in {c.tiles : c \in NbrSet(parent[t])}
          /\ parent[t].tiles \in DOMAIN g_values
          /\ g_values[parent[t].tiles] < g_values[t]

\* every frontier entry's g is at least the recorded cost of its Board, and
\* at most one entry of a Board has g equal to it
FrontierAboveRecorded ==
    /\ \A e \in heap :
          /\ e.board.tiles \in DOMAIN g_values
          /\ e.g >= g_values[e.board.tiles]
    /\ \A e1, e2 \in heap :
          (/\ e1.board = e2.board
           /\ e1.g = g_values[e1.board.tiles]
           /\ e2.g = g_values[e2.board.tiles]) => e1 = e2

\* a recorded cost stays recorded and never increases
CostNeverIncreases ==
    Searching =>
        \A t \in DOMAIN g_values :
            t \in DOMAIN g_values' /\ g_values'[t] <= g_values[t]

\* C27: in every reachable state of astar, with any heuristic, the start has
\* cost 0 and parent None, every other recorded Board has a parent one legal
\* move away with a strictly smaller recorded cost, every frontier entry's g
\* is >= the recorded cost of its Board with at most one entry per Board
\* equal to it, and no step increases or forgets a recorded cost.
C27_SearchInvariants ==
    /\ [](Searching => StartIsRoot /\ ParentsAreCloser /\ FrontierAboveRecorded)
    /\ [][CostNeverIncreases]_vars

\* a frontier holding a stale entry next to recorded Boards three deep
C27_Witness ==
    /\ Searching
    /\ \E e \in heap : e.g > g_values[e.board.tiles]
    /\ \E t \in DOMAIN g_values :
          /\ g_values[t] >= 3
          /\ g_values[parent[t].tiles] < g_values[t]

\* C28: every astar call returns nodes_expanded >= 1, the goal pop included;
\* when the start is already the goal it returns solved, solution_depth 0,
\* nodes_expanded 1 and path = [start], and no neighbour has been generated:
\* nothing was recorded or pushed besides the start.
C28_GoalPopIsCounted ==
    Returned =>
        /\ result.nodes_expanded >= 1
        /\ is_goal(start) =>
              /\ result = [solved |-> TRUE, solution_depth |-> 0,
                           nodes_expanded |-> 1, path |-> <<start>>]
              /\ DOMAIN g_values = {start.tiles}
              /\ DOMAIN parent = {start.tiles}
              /\ heap = {}
              /\ tie_counter = 1

C28_Witness ==
    /\ Returned
    /\ start = goal(3)
    /\ result.solved
    /\ result.nodes_expanded = 1
    /\ result.path = <<goal(3)>>

\* C29: the Board goal(n).randomize(k) is within k legal moves of the goal
\* and has the parity of k: astar on it with h2_manhattan returns solved with
\* solution_depth <= k and solution_depth mod 2 = k mod 2.
C29_ShuffleDepthAndParity ==
    (Returned /\ origin.kind = "goal" /\ heur = "h2_manhattan") =>
        /\ result.solved
        /\ result.solution_depth <= moves
        /\ result.solution_depth % 2 = moves % 2

\* seven moves round the twelve Boards of the 2x2 puzzle end five from the goal
C29_Witness ==
    /\ Returned
    /\ origin.kind = "goal"
    /\ heur = "h2_manhattan"
    /\ moves = 7
    /\ result.solved
    /\ result.solution_depth = 5

Consistent == heur \in {"h1_misplaced", "h2_manhattan"}

\* the last pop was not of a stale entry
PoppedFresh == popped # NoEntry /\ ~(g_values[popped.board.tiles] < popped.g)

\* C25: with h1_misplaced or h2_manhattan every non-stale pop carries g equal
\* to the minimum number of moves from the start to the popped Board, no Board
\* is expanded more than once, nodes_expanded never exceeds the number of
\* Boards reachable from the start, (n*n)!/2, and equals it, every reachable
\* Board having been expanded, when the start is unsolvable.
C25_FirstPopIsOptimal ==
    (Searching /\ Consistent) =>
        /\ PoppedFresh => popped.g = Distance(start, popped.board)
        /\ nodes_expanded = Cardinality(expanded_tiles)
        /\ nodes_expanded <= Factorial(start.n * start.n) \div 2
        /\ (Returned /\ ~is_solvable(start)) =>
              /\ expanded_tiles = {b.tiles : b \in Reachable(start)}
              /\ nodes_expanded = Factorial(start.n * start.n) \div 2

C25_Witness ==
    /\ Returned
    /\ heur = "h2_manhattan"
    /\ ~is_solvable(start)
    /\ PoppedFresh
    /\ popped.g = 6
    /\ nodes_expanded = 12

\* C24: when the steps of two astar invocations are interleaved in any order,
\* each returns the solved, solution_depth, nodes_expanded and path it returns
\* when it runs alone, and a step of one leaves the locals of the other as
\* they were.
C24_SearchesDoNotInterfere ==
    /\ [](Returned => result = Alone(start, heur))
    /\ [](other.pc = "done" => other.result = Alone(other.start, other.heur))
    /\ [][(other' # other => Locals' = Locals)
          /\ (Locals' # Locals => other' = other)]_vars

\* both have returned, the first after pops taken while the second was in its
\* loop, on Boards of the same size
C24_Witness ==
    /\ Returned
    /\ other.pc = "done"
    /\ start.n = 3
    /\ other.start.n = 3
    /\ result.solved
    /\ other.result.solved
    /\ result.nodes_expanded > 20
    /\ other.result.nodes_expanded >= 3

====
